---------------------------- MODULE Spec2Model ----------------------------
(***************************************************************************)
(* A model of the participant / points-transfer chaincode (testcc.go).     *)
(*                                                                         *)
(* Strings are sequences of one-character strings, so that the            *)
(* conversions of the code (strings.ToLower, strconv.Atoi, the JSON       *)
(* encoding of a participant) are computed character by character.        *)
(* Go's int is a two's complement machine word; the model keeps the       *)
(* wrap-around of its arithmetic and the clamping of strconv.Atoi, on a   *)
(* word of IntBits bits.                                                   *)
(***************************************************************************)
EXTENDS Integers, Sequences, FiniteSets, TLC

VARIABLES store,    \* the ledger: key -> stored bytes, Nil when absent
          last,     \* the invocation that ran last: its arguments and response
          before,   \* the ledger as it was when that invocation started
          steps,    \* number of invocations run so far
          ver,      \* the version of each key: the commits that have written it
          txs,      \* the transfers in flight at once, each at a store call
          committed \* the transfers in flight that committed, in commit order

vars == <<store, last, before, steps, ver, txs, committed>>

----------------------------------------------------------------------------
(* Bounds of the model *)

\* width of the machine word the model gives Go's int
IntBits == 10
\* invocations in one behaviour
MaxSteps == 4

----------------------------------------------------------------------------
(* Texts *)

Upper == <<"A","B","C","D","E","F","G","H","I","J","K","L","M",
           "N","O","P","Q","R","S","T","U","V","W","X","Y","Z">>
Lower == <<"a","b","c","d","e","f","g","h","i","j","k","l","m",
           "n","o","p","q","r","s","t","u","v","w","x","y","z">>
Digits == <<"0","1","2","3","4","5","6","7","8","9">>

IsDigit(c) == \E i \in 1..Len(Digits) : Digits[i] = c
DigitVal(c) == (CHOOSE i \in 1..Len(Digits) : Digits[i] = c) - 1

\* unicode.ToLower on one character
LowerChar(c) ==
    IF \E i \in 1..Len(Upper) : Upper[i] = c
    THEN Lower[CHOOSE i \in 1..Len(Upper) : Upper[i] = c]
    ELSE c

ToLowerNot(s) == s

\* strings.ToLower
ToLower(s) == [i \in 1..Len(s) |-> LowerChar(s[i])]

----------------------------------------------------------------------------
(* Go's int *)

IntMax == 2^(IntBits - 1) - 1
IntMin == -(2^(IntBits - 1))

\* the value an int holds after an arithmetic operation whose exact result is x
Wrap(x) == ((x - IntMin) % (2^IntBits)) + IntMin

\* Go's integer division truncates toward zero
Quo(a, b) == IF a >= 0 THEN a \div b ELSE -((-a) \div b)

\* the value of a sequence of digits
RECURSIVE DigitsValue(_)
DigitsValue(ds) ==
    IF Len(ds) = 0 THEN 0
    ELSE 10 * DigitsValue(SubSeq(ds, 1, Len(ds) - 1)) + DigitVal(ds[Len(ds)])

\* strconv.Atoi: an optional sign, then one or more digits.  A malformed text
\* yields 0 and a syntax error; a value outside int yields the nearest bound
\* of int and a range error.
Atoi(s) ==
    LET signed == Len(s) > 0 /\ s[1] \in {"+", "-"}
        ds     == IF signed THEN SubSeq(s, 2, Len(s)) ELSE s
        neg    == signed /\ s[1] = "-"
        wellFormed == Len(ds) > 0 /\ \A i \in 1..Len(ds) : IsDigit(ds[i])
        v      == IF neg THEN -DigitsValue(ds) ELSE DigitsValue(ds)
    IN  IF ~wellFormed THEN [val |-> 0, err |-> "syntax"]
        ELSE IF v > IntMax THEN [val |-> IntMax, err |-> "range"]
        ELSE IF v < IntMin THEN [val |-> IntMin, err |-> "range"]
        ELSE [val |-> v, err |-> "nil"]

\* the decimal text of a non-negative number
RECURSIVE NatText(_)
NatText(n) ==
    IF n < 10 THEN <<Digits[n + 1]>>
    ELSE NatText(n \div 10) \o <<Digits[(n % 10) + 1]>>

\* the decimal text json.Marshal writes for an int
IntText(n) == IF n < 0 THEN <<"-">> \o NatText(-n) ELSE NatText(n)

----------------------------------------------------------------------------
(* The participant record and its JSON encoding *)

\* the absent value: GetState of a key that holds nothing, a nil payload
Nil == [nil |-> TRUE]

\* participant{} : the zero value of the struct
ZeroParticipant == [ObjectType |-> <<>>, Name |-> <<>>, Category |-> <<>>, Balance |-> 0]

\* json.Marshal(participant): the field tags name the members, the balance is
\* written as decimal text
Marshal(p) ==
    [docType  |-> p.ObjectType,
     name     |-> p.Name,
     category |-> p.Category,
     balance  |-> IntText(p.Balance)]

\* the int a JSON number denotes: an optional minus sign, then digits
JSONInt(t) ==
    IF Len(t) > 0 /\ t[1] = "-" THEN -DigitsValue(SubSeq(t, 2, Len(t)))
    ELSE DigitsValue(t)

UnmarshalNilAsZero(bytes) ==
    IF bytes = Nil
    THEN [err |-> "nil", val |-> ZeroParticipant]
    ELSE [err |-> "nil",
          val |-> [ObjectType |-> bytes.docType,
                   Name       |-> bytes.name,
                   Category   |-> bytes.category,
                   Balance    |-> JSONInt(bytes.balance)]]

\* json.Unmarshal(bytes, &participant{}): nil bytes are no JSON text
Unmarshal(bytes) ==
    IF bytes = Nil
    THEN [err |-> "unexpected end of JSON input", val |-> ZeroParticipant]
    ELSE [err |-> "nil",
          val |-> [ObjectType |-> bytes.docType,
                   Name       |-> bytes.name,
                   Category   |-> bytes.category,
                   Balance    |-> JSONInt(bytes.balance)]]

----------------------------------------------------------------------------
(* The ledger store *)

GetStateNothing(st, key) == Nil

\* stub.GetState(key): the bytes stored under key, nil when there are none
GetState(st, key) == IF key \in DOMAIN st THEN st[key] ELSE Nil

PutStateLost(st, key, value) == st

\* stub.PutState(key, value)
PutState(st, key, value) == [st EXCEPT ![key] = value]

\* the store after a sequence of PutState calls, made in order
RECURSIVE ApplyWrites(_, _)
ApplyWrites(st, ws) ==
    IF Len(ws) = 0 THEN st
    ELSE ApplyWrites(PutState(st, ws[1].key, ws[1].val), Tail(ws))

\* shim.Success(payload) and shim.Error(message)
Success(payload) == [status |-> "OK", message |-> "", payload |-> payload]
Error(msg) == [status |-> "ERROR", message |-> msg, payload |-> Nil]

\* what one invocation did: its response and the PutState calls it made
Outcome(resp, ws) == [resp |-> resp, writes |-> ws]

----------------------------------------------------------------------------
(* initParty - create a new participant *)

\* the error text of a failed store call
StoreErr == "store error"

ExistsNever(bytes) == FALSE

\* partyAsBytes != nil : the key already holds a record
Exists(bytes) == bytes # Nil

\* fail names the store call that fails in this invocation ("none": no call fails)
initParty(st, args, fail) ==
    IF Len(args) # 3
    THEN Outcome(Error("Incorrect number of arguments. Expecting 3 (Name, Type, Balance)"), <<>>)
    ELSE IF Len(args[1]) <= 0
    THEN Outcome(Error("1st argument must be a non-empty string"), <<>>)
    ELSE IF Len(args[2]) <= 0
    THEN Outcome(Error("2nd argument must be a non-empty string"), <<>>)
    ELSE IF Len(args[3]) <= 0
    THEN Outcome(Error("3rd argument must be a non-empty string"), <<>>)
    ELSE
    LET partyName == args[1]
        category  == ToLower(args[2])
        balance   == Atoi(args[3])
        party     == [ObjectType |-> <<"p","a","r","t","i","c","i","p","a","n","t">>,
                      Name       |-> partyName,
                      Category   |-> category,
                      Balance    |-> balance.val]
    IN  IF balance.err # "nil"
        THEN Outcome(Error("3rd argument must be a numeric string"), <<>>)
        ELSE IF fail = "getParty"
        THEN Outcome(Error("Failed to get Participant"), <<>>)
        ELSE IF Exists(GetState(st, partyName))
        THEN Outcome(Error("This Participant already exists"), <<>>)
        ELSE IF fail = "putParty"
        THEN Outcome(Error(StoreErr), <<>>)
        ELSE Outcome(Success(Nil), <<[key |-> partyName, val |-> Marshal(party)]>>)

----------------------------------------------------------------------------
(* readParty - read a participant *)

readParty(st, args, fail) ==
    IF Len(args) # 1
    THEN Outcome(Error("Incorrect number of arguments. Expecting name of the Participant to query"), <<>>)
    ELSE
    LET name == args[1]
        valAsbytes == GetState(st, name)
    IN  IF fail = "getState"
        THEN Outcome(Error("Failed to get state"), <<>>)
        ELSE IF valAsbytes = Nil
        THEN Outcome(Error("particpant does not exist"), <<>>)
        ELSE Outcome(Success(valAsbytes), <<>>)

----------------------------------------------------------------------------
(* transferPoints - transfer points from one participant to another *)

\* taxAuth := "TaxAuth" : the key of the tax authority's record
taxAuth == <<"T","a","x","A","u","t","h">>

\* the category literals the transfer compares with
CatTaxAuth == <<"T","a","x","A","u","t","h">>
CatTaxExempt == <<"T","a","x","E","x","e","m","p","t">>

NotEnoughReversed(balance, points) == points < balance

\* senderTransfer.Balance < pointsAsInt
NotEnough(balance, points) == balance < points

\* taxPoints := (pointsAsInt * 2) / 100
TaxPoints(points) == Quo(Wrap(points * 2), 100)

\* a failed write of the sender's record that does not end the invocation
SaveTransferGoesOn(taxed, taxW, senderW, receiverW, fail) ==
    IF taxed /\ fail = "putTaxAuth"
    THEN Outcome(Error(StoreErr), <<>>)
    ELSE
    LET done == IF taxed THEN <<taxW>> ELSE <<>>
    IN  IF fail = "putSender"
        THEN Outcome(Error(StoreErr), done \o <<receiverW>>)
        ELSE IF fail = "putReceiver"
        THEN Outcome(Error(StoreErr), done \o <<senderW>>)
        ELSE Outcome(Success(Nil), done \o <<senderW, receiverW>>)

\* the sender's record written under the receiver's key and the receiver's
\* under the sender's
SaveTransferSwapped(taxed, taxW, senderW, receiverW, fail) ==
    IF taxed /\ fail = "putTaxAuth"
    THEN Outcome(Error(StoreErr), <<>>)
    ELSE
    LET done == IF taxed THEN <<taxW>> ELSE <<>>
        first == [key |-> receiverW.key, val |-> senderW.val]
        second == [key |-> senderW.key, val |-> receiverW.val]
    IN  IF fail = "putSender"
        THEN Outcome(Error(StoreErr), done)
        ELSE IF fail = "putReceiver"
        THEN Outcome(Error(StoreErr), done \o <<first>>)
        ELSE Outcome(Success(Nil), done \o <<first, second>>)

\* the PutState calls that end a transfer: the tax authority's record when the
\* receiver is taxed, then the sender's, then the receiver's; the first call
\* that fails ends the invocation
SaveTransfer(taxed, taxW, senderW, receiverW, fail) ==
    IF taxed /\ fail = "putTaxAuth"
    THEN Outcome(Error(StoreErr), <<>>)
    ELSE
    LET done == IF taxed THEN <<taxW>> ELSE <<>>
    IN  IF fail = "putSender"
        THEN Outcome(Error(StoreErr), done)
        ELSE IF fail = "putReceiver"
        THEN Outcome(Error(StoreErr), done \o <<senderW>>)
        ELSE Outcome(Success(Nil), done \o <<senderW, receiverW>>)

\* the transfer from the bytes its three GetState calls returned: the sender's,
\* the receiver's and the tax authority's
transferFetched(args, senderAsBytes, receiverAsBytes, taxAuthAsBytes, fail) ==
    LET sender   == args[1]
        receiver == args[2]
        points   == args[3]
        pointsAsInt == Atoi(points).val      \* the error of Atoi is not looked at
        taxAuthority   == Unmarshal(taxAuthAsBytes)
        senderTransfer == Unmarshal(senderAsBytes)
        receiverTranfer == Unmarshal(receiverAsBytes)
        taxed == receiverTranfer.val.Category # CatTaxExempt
        taxPoints == TaxPoints(pointsAsInt)
        pointsAfterTax == Wrap(pointsAsInt - taxPoints)
        senderAfter == [senderTransfer.val EXCEPT
                          !.Balance = Wrap(senderTransfer.val.Balance - pointsAsInt)]
        receiverAfter == [receiverTranfer.val EXCEPT
                          !.Balance = IF taxed
                                      THEN Wrap(receiverTranfer.val.Balance + pointsAfterTax)
                                      ELSE Wrap(receiverTranfer.val.Balance + pointsAsInt)]
        taxAuthorityAfter == [taxAuthority.val EXCEPT
                          !.Balance = Wrap(taxAuthority.val.Balance + taxPoints)]
    IN  IF fail = "getSender"
        THEN Outcome(Error("Failed to get Sender"), <<>>)
        ELSE IF senderAsBytes = Nil
        THEN Outcome(Error("Sender does not exist"), <<>>)
        ELSE IF fail = "getReceiver"
        THEN Outcome(Error("Failed to get Receiver"), <<>>)
        ELSE IF senderAsBytes = Nil      \* the receiver's bytes are not looked at
        THEN Outcome(Error("Receiver does not exist"), <<>>)
        ELSE IF fail = "getTaxAuth"
        THEN Outcome(Error("Failed to get Tax_Authority"), <<>>)
        ELSE IF senderAsBytes = Nil      \* the tax authority's bytes are not looked at
        THEN Outcome(Error("Tax Authority does not exist"), <<>>)
        ELSE IF taxAuthority.err # "nil"
        THEN Outcome(Error(taxAuthority.err), <<>>)
        ELSE IF senderTransfer.err # "nil"
        THEN Outcome(Error(senderTransfer.err), <<>>)
        ELSE IF receiverTranfer.err # "nil"
        THEN Outcome(Error(receiverTranfer.err), <<>>)
        ELSE IF senderTransfer.val.Category = CatTaxAuth
        THEN Outcome(Error("Tax Authority cann't Participate in any transaction"), <<>>)
        ELSE IF receiverTranfer.val.Category = CatTaxAuth
        THEN Outcome(Error("Tax Authority cann't Participate in any transaction"), <<>>)
        ELSE IF NotEnough(senderTransfer.val.Balance, pointsAsInt)
        THEN Outcome(Error("There is no enough balance in the sender account"), <<>>)
        ELSE SaveTransfer(taxed,
                          [key |-> taxAuth,  val |-> Marshal(taxAuthorityAfter)],
                          [key |-> sender,   val |-> Marshal(senderAfter)],
                          [key |-> receiver, val |-> Marshal(receiverAfter)],
                          fail)

transferPoints(st, args, fail) ==
    IF Len(args) < 3
    THEN Outcome(Error("Incorrect number of arguments. Expecting 3"), <<>>)
    ELSE transferFetched(args, GetState(st, args[1]), GetState(st, args[2]),
                         GetState(st, taxAuth), fail)

----------------------------------------------------------------------------
(* Invoke - the entry point of invocations *)

Invoke(st, function, args, fail) ==
    IF function = "initParty" THEN initParty(st, args, fail)
    ELSE IF function = "transferPoints" THEN transferPoints(st, args, fail)
    ELSE IF function = "readParty" THEN readParty(st, args, fail)
    ELSE Outcome(Error("Received unknown function invocation"), <<>>)

----------------------------------------------------------------------------
(* The invocations the model runs *)

Alice == <<"A","l","i","c","e">>
Bob   == <<"B","o","b">>

\* the keys of the ledger
Keys == {Alice, Bob, taxAuth}

\* category texts given to initParty
Normal == <<"N","o","r","m","a","l">>
CategoryTexts == { Normal, CatTaxExempt, CatTaxAuth, <<>> }

\* balance texts given to initParty: zero, two hundred, the largest int
Zero == <<"0">>
TwoHundred == <<"2","0","0">>
BalanceTexts == { Zero, TwoHundred, IntText(IntMax) }

\* texts that are no int: too large, not a number, empty
BadBalanceTexts == { IntText(IntMax) \o <<"0">>, <<"x">>, <<>> }

\* amount texts given to transferPoints: a hundred, a negative amount, a text
\* that is no number, a number too large for int
Hundred == <<"1","0","0">>
TooLarge == IntText(IntMax) \o <<"0">>
AmountTexts == { Hundred, <<"-","1">>, <<"x">>, TooLarge }

\* store calls that may fail in an invocation
InitPartyFails == {"none", "getParty", "putParty"}
ReadPartyFails == {"none", "getState"}
TransferGetFails == {"getSender", "getReceiver", "getTaxAuth"}
TransferPutFails == {"putTaxAuth", "putSender", "putReceiver"}

\* well-formed arguments of initParty: every category with balance zero, and
\* a normal participant with every balance
InitPartyArgs ==
    { <<n, c, Zero>> : n \in Keys, c \in CategoryTexts \ {<<>>} }
    \cup { <<n, Normal, b>> : n \in Keys, b \in BalanceTexts }

\* malformed arguments of initParty: a balance that is no int, an empty
\* category, an empty name, a missing argument
BadInitPartyArgs ==
    { <<Alice, Normal, b>> : b \in BadBalanceTexts }
    \cup { <<Alice, <<>>, Zero>>, <<<<>>, Normal, Zero>>, <<Alice, Normal>> }

ReadPartyArgs == { <<n>> : n \in Keys } \cup { <<>> }

TransferPointsArgs ==
    { <<s, r, a>> : s \in Keys, r \in Keys, a \in AmountTexts }

NoInvocation ==
    [function |-> "", args |-> <<>>, fail |-> "none",
     resp |-> Success(Nil), writes |-> <<>>]

Init ==
    /\ store = [k \in Keys |-> Nil]
    /\ last = NoInvocation
    /\ before = [k \in Keys |-> Nil]
    /\ steps = 0
    /\ ver = [k \in Keys |-> 0]
    /\ txs = <<>>
    /\ committed = <<>>

\* the peer is free to take an invocation
Idle == last = NoInvocation /\ steps < MaxSteps

\* one invocation, run to its end: its PutState calls reach the ledger in order
Run(function, args, fail) ==
    LET out == Invoke(store, function, args, fail)
    IN  /\ store' = ApplyWrites(store, out.writes)
        /\ last' = [function |-> function, args |-> args, fail |-> fail,
                    resp |-> out.resp, writes |-> out.writes]
        /\ before' = store
        /\ steps' = steps + 1
        /\ UNCHANGED <<ver, txs, committed>>

InvokeInitParty ==
    /\ Idle
    /\ \/ \E args \in InitPartyArgs : Run("initParty", args, "none")
       \/ \E n \in Keys, fail \in InitPartyFails \ {"none"} :
             Run("initParty", <<n, Normal, Zero>>, fail)
       \/ \E args \in BadInitPartyArgs : Run("initParty", args, "none")

InvokeReadParty ==
    /\ Idle
    /\ \E args \in ReadPartyArgs, fail \in ReadPartyFails : Run("readParty", args, fail)

InvokeTransferPoints ==
    /\ Idle
    /\ \/ \E args \in TransferPointsArgs : Run("transferPoints", args, "none")
       \/ \E fail \in TransferGetFails :
             Run("transferPoints", <<Alice, Bob, Hundred>>, fail)
       \/ \E s \in Keys, r \in Keys, fail \in TransferPutFails :
             Run("transferPoints", <<s, r, Hundred>>, fail)
       \/ Run("transferPoints", <<Alice, Bob>>, "none")

InvokeUnknown ==
    /\ Idle
    /\ Run("deleteParty", <<Alice>>, "none")

\* the response has gone back to the caller; the peer takes the next invocation
Respond ==
    /\ last # NoInvocation
    /\ last' = NoInvocation
    /\ before' = store
    /\ UNCHANGED <<store, steps, ver, txs, committed>>

Next ==
    \/ InvokeInitParty
    \/ InvokeReadParty
    \/ InvokeTransferPoints
    \/ InvokeUnknown
    \/ Respond

Spec == Init /\ [][Next]_vars

----------------------------------------------------------------------------
(* Two transfers in flight at once. Each runs transferPoints one store call
   at a time; the ledger keeps a version per key, holds the PutState calls of
   an invocation until it commits, and refuses the commit of an invocation
   that read a key some commit has written since. *)

Carol == <<"C","a","r","o","l">>
ConcKeys == Keys \cup {Carol}

\* the transfers in flight
Txs == {1, 2}

\* the ledger after create(args), starting from st
Created(st, args) == ApplyWrites(st, initParty(st, args, "none").writes)

\* the ledgers the transfers start from: the tax authority, Alice and Bob
\* with 200 points each, and Carol absent, with no points or with 200
ConcBase ==
    Created(Created(Created([k \in ConcKeys |-> Nil],
                            <<taxAuth, Normal, Zero>>),
                    <<Alice, Normal, TwoHundred>>),
            <<Bob, Normal, TwoHundred>>)
ConcLedgers ==
    {ConcBase} \cup { Created(ConcBase, <<Carol, Normal, b>>) : b \in {Zero, TwoHundred} }

ConcTransferArgs ==
    { <<s, r, a>> : s \in ConcKeys, r \in ConcKeys, a \in {Hundred, <<"-","1">>} }

\* a transfer that has made no store call yet
NewTx(args) ==
    [args |-> args, pc |-> "getSender", got |-> <<>>, seen |-> <<>>, start |-> 0,
     result |-> "running", resp |-> Success(Nil), writes |-> <<>>]

ConcInit ==
    /\ store \in ConcLedgers
    /\ before = store
    /\ last = NoInvocation
    /\ steps = 0
    /\ ver = [k \in ConcKeys |-> 0]
    /\ txs \in [Txs -> { NewTx(args) : args \in ConcTransferArgs }]
    /\ committed = <<>>

\* the keys transferPoints reads, in the order of its GetState calls
ReadKeys(args) == <<args[1], args[2], taxAuth>>

\* the transfer returns: an error response ends it, its PutState calls are
\* dropped; a success leaves them waiting for the commit
Returned(tx, out) ==
    IF out.resp.status = "OK"
    THEN [tx EXCEPT !.pc = "commit", !.resp = out.resp, !.writes = out.writes]
    ELSE [tx EXCEPT !.pc = "done", !.result = "failed", !.resp = out.resp]

\* stub.GetState(sender), and the return when there is no sender
TxGetSender(t) ==
    /\ txs[t].pc = "getSender"
    /\ LET key == ReadKeys(txs[t].args)[1]
           bytes == GetState(store, key)
           read == [txs[t] EXCEPT !.got = <<bytes>>, !.seen = <<ver[key]>>,
                                  !.start = Len(committed), !.pc = "getReceiver"]
       IN  txs' = [txs EXCEPT ![t] =
                     IF bytes = Nil
                     THEN Returned(read, transferFetched(read.args, Nil, Nil, Nil, "none"))
                     ELSE read]
    /\ UNCHANGED <<store, last, before, steps, ver, committed>>

\* stub.GetState(receiver)
TxGetReceiver(t) ==
    /\ txs[t].pc = "getReceiver"
    /\ LET key == ReadKeys(txs[t].args)[2]
       IN  txs' = [txs EXCEPT ![t].got = Append(@, GetState(store, key)),
                              ![t].seen = Append(@, ver[key]),
                              ![t].pc = "getTaxAuth"]
    /\ UNCHANGED <<store, last, before, steps, ver, committed>>

\* stub.GetState(taxAuth), then the rest of transferPoints to its return
TxGetTaxAuth(t) ==
    /\ txs[t].pc = "getTaxAuth"
    /\ LET key == ReadKeys(txs[t].args)[3]
           bytes == GetState(store, key)
           read == [txs[t] EXCEPT !.got = Append(@, bytes), !.seen = Append(@, ver[key])]
       IN  txs' = [txs EXCEPT ![t] =
                     Returned(read, transferFetched(read.args, read.got[1], read.got[2],
                                                    bytes, "none"))]
    /\ UNCHANGED <<store, last, before, steps, ver, committed>>

StaleNever(tx) == FALSE

\* the transfer read a key that a commit has written since
Stale(tx) ==
    \E i \in 1..Len(tx.seen) : ver[ReadKeys(tx.args)[i]] # tx.seen[i]

\* the ledger commits the transfer's PutState calls together, or aborts it
TxCommit(t) ==
    /\ txs[t].pc = "commit"
    /\ IF Stale(txs[t])
       THEN /\ txs' = [txs EXCEPT ![t].pc = "done", ![t].result = "aborted"]
            /\ UNCHANGED <<store, ver, committed>>
       ELSE /\ txs' = [txs EXCEPT ![t].pc = "done", ![t].result = "committed"]
            /\ store' = ApplyWrites(store, txs[t].writes)
            /\ ver' = [k \in ConcKeys |->
                         IF \E i \in 1..Len(txs[t].writes) : txs[t].writes[i].key = k
                         THEN ver[k] + 1 ELSE ver[k]]
            /\ committed' = Append(committed, t)
    /\ UNCHANGED <<last, before, steps>>

ConcNext ==
    \/ \E t \in Txs : TxGetSender(t)
    \/ \E t \in Txs : TxGetReceiver(t)
    \/ \E t \in Txs : TxGetTaxAuth(t)
    \/ \E t \in Txs : TxCommit(t)

ConcSpec == ConcInit /\ [][ConcNext]_vars

----------------------------------------------------------------------------
(* The vocabulary of the properties *)

\* the kind of failure a response reports (the taxonomy of the design)
Kind(resp) ==
    IF resp.status = "OK" THEN "Success"
    ELSE CASE resp.message \in {"Incorrect number of arguments. Expecting 3 (Name, Type, Balance)",
                               "Incorrect number of arguments. Expecting 3",
                               "Incorrect number of arguments. Expecting name of the Participant to query"}
                -> "ArgumentCountError"
           [] resp.message \in {"1st argument must be a non-empty string",
                               "2nd argument must be a non-empty string",
                               "3rd argument must be a non-empty string"}
                -> "ArgumentEmptyError"
           [] resp.message = "3rd argument must be a numeric string" -> "ArgumentTypeError"
           [] resp.message = "This Participant already exists" -> "AlreadyExistsError"
           [] resp.message \in {"Sender does not exist", "Receiver does not exist",
                               "Tax Authority does not exist", "particpant does not exist"}
                -> "NotFoundError"
           [] resp.message = "unexpected end of JSON input" -> "SerializationError"
           [] resp.message = "Tax Authority cann't Participate in any transaction"
                -> "CategoryRestrictionError"
           [] resp.message = "There is no enough balance in the sender account"
                -> "InsufficientBalanceError"
           [] resp.message \in {StoreErr, "Failed to get Participant", "Failed to get state",
                               "Failed to get Sender", "Failed to get Receiver",
                               "Failed to get Tax_Authority"}
                -> "StorageError"
           [] OTHER -> "UnknownFunction"

Succeeded == last.resp.status = "OK"
Failed(kind) == Kind(last.resp) = kind

\* the last invocation was transfer(sender, receiver, amount)
IsTransfer == last.function = "transferPoints" /\ Len(last.args) >= 3
TSender == last.args[1]
TReceiver == last.args[2]
AmountIsInt == Atoi(last.args[3]).err = "nil"
Amount == Atoi(last.args[3]).val

\* the last invocation was create(name, category, balance)
IsCreate == last.function = "initParty"

\* the record a ledger holds under a key
Has(st, k) == st[k] # Nil
Rec(st, k) == Unmarshal(st[k]).val
Bal(st, k) == Rec(st, k).Balance

\* the record under k was created with the given category text
LowerOf(c) ==
    CASE c = Normal -> <<"n","o","r","m","a","l">>
      [] c = CatTaxExempt -> <<"t","a","x","e","x","e","m","p","t">>
      [] c = CatTaxAuth -> <<"t","a","x","a","u","t","h">>
CreatedAs(st, k, c) == Has(st, k) /\ Rec(st, k).Category = LowerOf(c)

\* k names the tax authority: the record under the reserved key, or a record
\* created with the tax-authority category
IsTaxAuthority(st, k) == Has(st, k) /\ (k = taxAuth \/ CreatedAs(st, k, CatTaxAuth))

\* the three records of a transfer are in the ledger and every read succeeds
RecordsFetched ==
    /\ last.fail \notin {"getSender", "getReceiver", "getTaxAuth"}
    /\ Has(before, TSender) /\ Has(before, TReceiver) /\ Has(before, taxAuth)

Sum3(st) == Bal(st, TSender) + Bal(st, TReceiver) + Bal(st, taxAuth)

\* no step of the transfer's arithmetic leaves the range of int
InInt(x) == IntMin <= x /\ x <= IntMax
NoOverflow ==
    /\ InInt(Amount * 2)
    /\ \A k \in {TSender, TReceiver, taxAuth} :
          InInt(Bal(before, k) - Amount) /\ InInt(Bal(before, k) + Amount)

\* the transfer passed every check that precedes its PutState calls
ReachesWrites ==
    /\ RecordsFetched
    /\ Rec(before, TSender).Category # CatTaxAuth
    /\ Rec(before, TReceiver).Category # CatTaxAuth
    /\ Bal(before, TSender) >= Amount

\* the keys of the PutState calls of the last invocation, in order
WrittenKeys == [i \in 1..Len(last.writes) |-> last.writes[i].key]

\* the int a well-formed balance text denotes
IntOf(b) ==
    CASE b = Zero -> 0
      [] b = TwoHundred -> 200
      [] b = IntText(IntMax) -> IntMax

----------------------------------------------------------------------------
(* Properties *)

\* C1: a successful transfer in which neither side is the tax authority and
\* the receiver is not tax-exempt leaves the sum of the balances of the sender,
\* the receiver and the tax authority unchanged, sender = receiver included
\* (stated for a positive amount and arithmetic that stays within int).
C1_Conservation ==
    (/\ IsTransfer /\ Succeeded
     /\ ~IsTaxAuthority(before, TSender) /\ ~IsTaxAuthority(before, TReceiver)
     /\ ~CreatedAs(before, TReceiver, CatTaxExempt)
     /\ Amount > 0 /\ NoOverflow)
    => Sum3(store) = Sum3(before)

\* C2: a successful transfer of an integer amount a to a receiver that is not
\* tax-exempt takes a from the sender, gives a - tax to the receiver and tax to
\* the tax authority, with tax = floor(a*2/100) (stated for a positive amount,
\* a sender and a receiver that are not the tax authority, and arithmetic that
\* stays within int).
C2_TaxedTransfer ==
    (/\ IsTransfer /\ Succeeded /\ AmountIsInt
     /\ ~IsTaxAuthority(before, TSender) /\ ~IsTaxAuthority(before, TReceiver)
     /\ ~CreatedAs(before, TReceiver, CatTaxExempt)
     /\ Amount > 0 /\ NoOverflow)
    => LET tax == (Amount * 2) \div 100
       IN  /\ Bal(store, TSender) = Bal(before, TSender) - Amount
           /\ Bal(store, TReceiver) = Bal(before, TReceiver) + Amount - tax
           /\ Bal(store, taxAuth) = Bal(before, taxAuth) + tax

\* C3: a successful transfer of a to a receiver created with category
\* "TaxExempt" adds exactly a to the receiver's balance and leaves the balance
\* of the tax authority unchanged (stated for a sender, a receiver and a tax
\* authority under three different keys, and arithmetic within int).
C3_ExemptReceiver ==
    (/\ IsTransfer /\ Succeeded
     /\ CreatedAs(before, TReceiver, CatTaxExempt)
     /\ Cardinality({TSender, TReceiver, taxAuth}) = 3
     /\ NoOverflow)
    => /\ Bal(store, TReceiver) = Bal(before, TReceiver) + Amount
       /\ Bal(store, taxAuth) = Bal(before, taxAuth)

\* C4: a transfer whose sender or receiver is the tax authority is rejected
\* with CategoryRestrictionError and writes nothing (stated for the transfers
\* that fetch their three records, the steps before the category check).
C4_TaxAuthorityRejected ==
    (/\ IsTransfer /\ RecordsFetched
     /\ (IsTaxAuthority(before, TSender) \/ IsTaxAuthority(before, TReceiver)))
    => /\ Failed("CategoryRestrictionError")
       /\ last.writes = <<>>
       /\ store = before

\* C5, as claimed: whenever the amount exceeds the sender's stored balance the
\* transfer fails with InsufficientBalance and mutates no record (stated for
\* invocations in which no store call fails).
C5_AsClaimed ==
    (/\ IsTransfer /\ last.fail = "none"
     /\ Has(before, TSender) /\ Amount > Bal(before, TSender))
    => /\ Failed("InsufficientBalanceError")
       /\ store = before

\* C5, amended: whenever the amount exceeds the sender's stored balance the
\* transfer fails and mutates no record; the failure is InsufficientBalance
\* when the three reads succeed and the receiver's and the tax authority's
\* records exist.
C5_InsufficientBalance ==
    (/\ IsTransfer
     /\ Has(before, TSender) /\ Amount > Bal(before, TSender))
    => /\ ~Succeeded
       /\ last.writes = <<>>
       /\ store = before
       /\ RecordsFetched => Failed("InsufficientBalanceError")

C5_Witness ==
    /\ IsTransfer /\ Failed("InsufficientBalanceError")
    /\ Cardinality({TSender, TReceiver, taxAuth}) = 3
    /\ Amount > Bal(before, TSender)
    /\ Bal(before, TReceiver) = 200

\* the last invocation was a create on a name that already had a record
CreateOnExisting ==
    /\ IsCreate /\ Len(last.args) >= 1
    /\ last.args[1] \in Keys /\ Has(before, last.args[1])

\* C6, as claimed: create on a name that already has a record fails with
\* AlreadyExists and leaves the record unchanged (stated for invocations in
\* which no store call fails).
C6_AsClaimed ==
    (CreateOnExisting /\ last.fail = "none")
    => /\ Failed("AlreadyExistsError")
       /\ store = before

\* C6, amended: create on a name that already has a record fails and leaves
\* every record unchanged, whatever transfers did to the record since its
\* creation; the failure is AlreadyExists when the three arguments are
\* non-empty, the balance text is an integer and the store read succeeds, and
\* the failure of the earlier step otherwise.
C6_NoOverwrite ==
    CreateOnExisting
    => /\ ~Succeeded
       /\ last.writes = <<>>
       /\ store = before
       /\ (last.args \in InitPartyArgs /\ last.fail # "getParty")
             => Failed("AlreadyExistsError")
       /\ last.args \notin InitPartyArgs
             => \/ Failed("ArgumentCountError")
                \/ Failed("ArgumentEmptyError")
                \/ Failed("ArgumentTypeError")
       /\ (last.args \in InitPartyArgs /\ last.fail = "getParty")
             => Failed("StorageError")

\* a create refused for a record whose balance a transfer has changed
C6_Witness ==
    /\ CreateOnExisting /\ Failed("AlreadyExistsError")
    /\ Bal(before, last.args[1]) \notin {0, 200, IntMax}
    /\ last.args[3] = Zero

\* C7: a transfer that names a sender, a receiver or a tax authority with no
\* record fails with NotFound and changes no balance (stated for invocations
\* in which no store call fails).
C7_MissingIsNotFound ==
    (/\ IsTransfer /\ last.fail = "none"
     /\ (~Has(before, TSender) \/ ~Has(before, TReceiver) \/ ~Has(before, taxAuth)))
    => /\ Failed("NotFoundError")
       /\ store = before

\* C8: after a successful create(name, category, balance), read(name) returns
\* a record whose name is the given name, whose category is the given category
\* in lower case and whose balance is the integer the balance text denotes.
C8_RoundTrip ==
    (IsCreate /\ Succeeded)
    => LET out == readParty(store, <<last.args[1]>>, "none")
           rec == Unmarshal(out.resp.payload)
       IN  /\ out.resp.status = "OK"
           /\ out.writes = <<>>
           /\ rec.err = "nil"
           /\ rec.val.Name = last.args[1]
           /\ rec.val.Category = LowerOf(last.args[2])
           /\ rec.val.Balance = IntOf(last.args[3])

\* a create whose category text has upper-case letters and whose balance text
\* has several digits
C8_Witness ==
    /\ IsCreate /\ Succeeded
    /\ last.args = <<Bob, Normal, TwoHundred>>
    /\ Rec(store, Bob).Category = <<"n","o","r","m","a","l">>
    /\ Bal(store, Bob) = 200

\* C9: after a successful transfer the sender's stored balance is not
\* negative, for every amount and every pair of sender and receiver (stated
\* for arithmetic that stays within int).
C9_SenderNotNegative ==
    (IsTransfer /\ Succeeded /\ NoOverflow)
    => Bal(store, TSender) >= 0

\* the tax of an amount whose double is within int
TaxOf(a) == IF a >= 0 THEN (a * 2) \div 100 ELSE -((-(a * 2)) \div 100)

\* C10: when a PutState of a transfer fails, the transfer returns StorageError,
\* makes no later PutState, and the earlier ones stay in the ledger: when the
\* sender's write fails after the tax authority's succeeded, the tax authority
\* keeps the tax while the sender's and the receiver's records are as before.
C10_NoRollback ==
    (/\ IsTransfer /\ ReachesWrites
     /\ Rec(before, TReceiver).Category # CatTaxExempt
     /\ last.fail \in {"putTaxAuth", "putSender", "putReceiver"})
    => /\ Failed("StorageError")
       /\ WrittenKeys = CASE last.fail = "putTaxAuth" -> <<>>
                           [] last.fail = "putSender" -> <<taxAuth>>
                           [] last.fail = "putReceiver" -> <<taxAuth, TSender>>
       /\ \A k \in Keys :
             LET ws == {i \in 1..Len(last.writes) : last.writes[i].key = k}
             IN  store[k] = IF ws = {} THEN before[k]
                            ELSE last.writes[CHOOSE i \in ws : \A j \in ws : j <= i].val
       /\ last.fail = "putSender"
             => /\ Bal(store, taxAuth) = Wrap(Bal(before, taxAuth) + TaxOf(Amount))
                /\ \A k \in Keys \ {taxAuth} : store[k] = before[k]
       /\ (last.fail = "putReceiver" /\ TSender # taxAuth)
             => /\ Bal(store, taxAuth) = Wrap(Bal(before, taxAuth) + TaxOf(Amount))
                /\ Bal(store, TSender) = Wrap(Bal(before, TSender) - Amount)
                /\ \A k \in Keys \ {taxAuth, TSender} : store[k] = before[k]

\* the sender's write failed after the tax authority took its tax
C10_Witness ==
    /\ IsTransfer /\ last.fail = "putSender" /\ Failed("StorageError")
    /\ Cardinality({TSender, TReceiver, taxAuth}) = 3
    /\ Bal(store, taxAuth) = Bal(before, taxAuth) + 2
    /\ Bal(store, TSender) = 200
    /\ Bal(store, TReceiver) = Bal(before, TReceiver)

\* the last invocation was read(...)
IsRead == last.function = "readParty"

\* C11: read(name) returns the stored encoded record when one exists and fails
\* with NotFound when none exists, and in every case (a failed fetch and a
\* wrong number of arguments included) leaves the store unchanged; a failed
\* fetch is a StorageError.
C11_ReadParty ==
    IsRead
    => /\ last.writes = <<>>
       /\ store = before
       /\ (Len(last.args) = 1 /\ last.fail = "none")
             => IF Has(before, last.args[1])
                THEN Succeeded /\ last.resp.payload = before[last.args[1]]
                ELSE Failed("NotFoundError") /\ last.resp.payload = Nil
       /\ (Len(last.args) = 1 /\ last.fail = "getState") => Failed("StorageError")
       /\ Len(last.args) # 1 => Failed("ArgumentCountError")

\* a read that returns a record whose balance a transfer has changed
C11_Witness ==
    /\ IsRead /\ Succeeded
    /\ last.args = <<Bob>>
    /\ last.resp.payload = store[Bob]
    /\ Unmarshal(last.resp.payload).val.Balance = 100

\* C12: a successful transfer makes its PutState calls in the order tax
\* authority (only when the receiver is not tax-exempt), sender, receiver; for
\* a tax-exempt receiver the tax authority's record is not written; a transfer
\* that fails a validation step writes nothing (stated for a positive integer
\* amount, three different keys and invocations in which no store call fails).
C12_WriteOrder ==
    (/\ IsTransfer /\ last.fail = "none"
     /\ AmountIsInt /\ Amount > 0
     /\ Cardinality({TSender, TReceiver, taxAuth}) = 3)
    => /\ Succeeded
             => WrittenKeys = IF CreatedAs(before, TReceiver, CatTaxExempt)
                              THEN <<TSender, TReceiver>>
                              ELSE <<taxAuth, TSender, TReceiver>>
       /\ ~Succeeded => last.writes = <<>>

\* every transfer in flight has returned and, if it succeeded, was committed
\* or aborted
AllDone == \A t \in Txs : txs[t].pc = "done"

\* the orders in which the transfers of a set can run one after the other
Orders(S) ==
    { o \in [1..Cardinality(S) -> S] : \A i, j \in 1..Cardinality(S) : i # j => o[i] # o[j] }

\* the ledger after the transfers of order ran one after the other, each to
\* its end, and whether each of them succeeded
RECURSIVE Serial(_, _)
Serial(st, order) ==
    IF Len(order) = 0 THEN [st |-> st, ok |-> TRUE]
    ELSE LET out == transferPoints(st, txs[order[1]].args, "none")
             rest == Serial(ApplyWrites(st, out.writes), Tail(order))
         IN  [st |-> rest.st, ok |-> out.resp.status = "OK" /\ rest.ok]

CommittedSet == { committed[i] : i \in 1..Len(committed) }

C14_UnparsedIsZero ==
    (/\ IsTransfer /\ last.fail = "none"
     /\ ~AmountIsInt
     /\ Has(before, TSender) /\ Has(before, TReceiver) /\ Has(before, taxAuth)
     /\ Bal(before, TSender) >= 0)
    => /\ Amount = 0
       /\ Succeeded
       /\ \A k \in Keys : Has(store, k) = Has(before, k)
       /\ \A k \in Keys : Has(before, k) => Bal(store, k) = Bal(before, k)

\* the cause of failure of the last create, if it has one of those the design
\* lists: wrong argument count, empty argument, non-integer balance, existing
\* key, store read error
CreateFailureCause ==
    \/ Len(last.args) # 3
    \/ \E i \in 1..Len(last.args) : Len(last.args[i]) = 0
    \/ Atoi(last.args[3]).err # "nil"
    \/ Has(before, last.args[1])
    \/ last.fail = "getParty"

\* C15: create(name, ...) makes exactly one PutState on success, under the
\* key name, which held no record before, and none on any failure (wrong
\* argument count, empty argument, non-integer balance, existing key, store
\* read error); the records under every other key are unchanged in all cases.
C15_CreateWrites ==
    IsCreate
    => /\ Succeeded
             => /\ WrittenKeys = <<last.args[1]>>
                /\ ~Has(before, last.args[1]) /\ Has(store, last.args[1])
                /\ store[last.args[1]] = last.writes[1].val
       /\ ~Succeeded => (last.writes = <<>> /\ store = before)
       /\ CreateFailureCause => ~Succeeded
       /\ \A k \in Keys : (Len(last.args) = 0 \/ k # last.args[1]) => store[k] = before[k]

\* a create that wrote Bob's record next to Alice's, which a transfer had
\* changed
C15_Witness ==
    /\ IsCreate /\ Succeeded
    /\ WrittenKeys = <<Bob>>
    /\ Has(before, Alice) /\ Bal(before, Alice) = 100
    /\ store[Alice] = before[Alice]
    /\ ~Has(before, Bob) /\ Bal(store, Bob) = 200

\* an invocation of one of the operations has just run
Invoked == last # NoInvocation

\* C16: a transfer changes no record other than those under the sender's key,
\* the receiver's key and the key of the tax authority, and creates no record
\* under a key that held none; no operation removes a record: a key gets a
\* record only through a successful create of that key.
C16_Frame ==
    Invoked
    => /\ last.function = "transferPoints"
             => /\ \A k \in Keys : Has(store, k) = Has(before, k)
                /\ Len(last.args) < 3 => store = before
                /\ Len(last.args) >= 3
                      => \A k \in Keys \ {TSender, TReceiver, taxAuth} : store[k] = before[k]
       /\ \A k \in Keys : Has(before, k) => Has(store, k)
       /\ \A k \in Keys :
             (Has(store, k) /\ ~Has(before, k))
                => (IsCreate /\ Succeeded /\ last.args[1] = k)

\* a transfer to a receiver without a record, next to a third record: nothing
\* is created, nothing is changed
C16_Witness ==
    /\ IsTransfer /\ last.fail = "none"
    /\ TSender = Alice /\ TReceiver = Bob /\ last.args[3] = Hundred
    /\ Has(before, Alice) /\ Bal(before, Alice) = 200
    /\ Has(before, taxAuth) /\ ~Has(before, Bob)
    /\ ~Has(store, Bob)
    /\ store = before

\* C17: in every ledger the record under key k is a participant named k; an
\* invocation leaves the name and the category of every record as they were,
\* and a successful create stores the given category in lower case: creates
\* and transfers change a record's balance only.
C17_NameAndCategory ==
    /\ \A k \in Keys :
          Has(store, k)
             => /\ Rec(store, k).Name = k
                /\ Rec(store, k).ObjectType = <<"p","a","r","t","i","c","i","p","a","n","t">>
    /\ \A k \in Keys :
          Has(before, k)
             => /\ Has(store, k)
                /\ Rec(store, k).Name = Rec(before, k).Name
                /\ Rec(store, k).Category = Rec(before, k).Category
    /\ (IsCreate /\ Succeeded)
          => Rec(store, last.args[1]).Category = LowerOf(last.args[2])

\* a record created as "TaxExempt" that a transfer has credited
C17_Witness ==
    /\ IsTransfer /\ Succeeded
    /\ TSender = Bob /\ TReceiver = Alice
    /\ Rec(store, Alice).Name = Alice
    /\ Rec(store, Alice).Category = <<"t","a","x","e","x","e","m","p","t">>
    /\ Bal(store, Alice) # Bal(before, Alice)
    /\ Rec(store, Bob).Name = Bob

\* C18: a successful transfer whose sender and receiver are the same key does
\* not increase that participant's balance: the balance goes down by the tax
\* and the tax authority's goes up by the tax (stated for a key other than the
\* tax authority's, a positive integer amount and arithmetic within int).
C18_SelfTransfer ==
    (/\ IsTransfer /\ Succeeded /\ AmountIsInt
     /\ TSender = TReceiver /\ TSender # taxAuth
     /\ Amount > 0 /\ NoOverflow)
    => /\ Bal(store, TSender) <= Bal(before, TSender)
       /\ Bal(store, TSender) = Bal(before, TSender) - TaxOf(Amount)
       /\ Bal(store, taxAuth) = Bal(before, taxAuth) + TaxOf(Amount)

\* C19: points only move from the sender to the receiver: for every integer
\* amount, negative ones included, and a sender and a receiver under
\* different keys, a successful transfer does not increase the sender's
\* balance and does not decrease the receiver's or the tax authority's
\* (stated for three different keys and arithmetic within int).
C19_OneDirection ==
    (/\ IsTransfer /\ Succeeded /\ AmountIsInt
     /\ Cardinality({TSender, TReceiver, taxAuth}) = 3
     /\ NoOverflow)
    => /\ Bal(store, TSender) <= Bal(before, TSender)
       /\ Bal(store, TReceiver) >= Bal(before, TReceiver)
       /\ Bal(store, taxAuth) >= Bal(before, taxAuth)

=============================================================================
